---- MODULE Spec2Model ----
(***************************************************************************)
(* clock-bot-cron: the scheduled-task orchestration engine.                *)
(*                                                                         *)
(*   SchedulerService    (src/services/scheduler.service.js)               *)
(*   HolidayService      (src/services/holiday.service.js)                 *)
(*   AnnualLeavesService (src/services/annual-leaves.service.js)           *)
(*                                                                         *)
(* Time is counted in hours since 1970-01-01T00:00Z.  A date-only string   *)
(* "YYYY-MM-DD" is represented by its day number since 1970-01-01; a Date  *)
(* object by its instant in hours.  The conversions between the two are    *)
(* the ones the code performs (local-time fields, UTC ISO string, UTC      *)
(* parse of a date-only string).                                           *)
(***************************************************************************)
EXTENDS Integers, Sequences, FiniteSets, TLC

VARIABLES
  cfg,           \* config/index.js: feature flags, retry settings, process zone
  tasks,         \* SchedulerService.tasks: the triggers registered by scheduleTask
  options,       \* per trigger: the skipOnHoliday option given to scheduleTask
  now,           \* Date.now(), in hours
  isRunning,     \* per trigger: the closure variable isRunning of scheduleTask
  waiting,       \* tick callbacks suspended in `await holidayService.shouldSkipTask()`
  chains,        \* execution chains: one per firing that reached executeWithRetry
  lastTick,      \* what the latest finished tick callback logged
  cache,         \* HolidayService.cache
  leaves,        \* AnnualLeavesService.leaves
  lastLoadTime,  \* AnnualLeavesService.lastLoadTime
  store,         \* contents of the annual-leaves.json file
  leaveQuery,    \* latest result of AnnualLeavesService.shouldSkipTask(dateString)
  site,          \* the attendance web site: clock button label, activity state
  botService,    \* the BotService instance of init(): config and service fields
  ops,           \* per chain: the executeOperation run of its current attempt
  stopped,       \* whether stopAll() was called, and what was live at that call
  proc           \* the process: "starting" (in init), "running", "exit1"

botVars == <<site, botService, ops>>

vars == <<cfg, tasks, options, now, isRunning, waiting, chains, lastTick, cache,
          leaves, lastLoadTime, store, leaveQuery, site, botService, ops,
          stopped, proc>>

----------------------------------------------------------------------------
(* Bounds of the model *)

MaxChains == 3      \* execution chains started in one behaviour
MaxWaiting == 2     \* tick callbacks suspended on a provider fetch at once
NumDays == 2        \* calendar days the clock ranges over
MaxAttemptsBound == 3  \* RETRY_MAX_ATTEMPTS ranges over 1..MaxAttemptsBound
RetryDelayHours == 1   \* RETRY_DELAY_MINUTES / 60
MaxBotChains == 2      \* chains started while the bot's steps are followed
MaxStartupChains == 1  \* chains started in a behaviour that begins with init()
MaxStoreChains == 1    \* chains started while the leave file is being edited
MaxLeaves == 2         \* records the in-memory leave list grows to by addLeave

(* Program constants *)

HoursPerDay == 24
EpochDay == 4            \* 1970-01-01 is a Thursday: Date.prototype.getDay
ZoneOffset == 8          \* config.timezone 'Asia/Singapore' is UTC+8
CacheValidHours == 24    \* HolidayService.cache.cacheValidHours
LeaveCacheValidHours == 1 \* AnnualLeavesService.cacheValidityMs = 60*60*1000
NullTime == 0 - 1        \* null for lastFetched / lastLoadTime

Triggers == {"clockIn", "clockOut", "hourly"}

FirstDay == 3            \* Sunday 1970-01-04
Days == FirstDay .. (FirstDay + NumDays - 1)
HoursOfDay == {1, 23}    \* UTC hours sampled: 09:00 and 07:00 (next day) in UTC+8
Times == {d * HoursPerDay + h : d \in Days, h \in HoursOfDay}
DateStrings == (FirstDay - 1) .. (FirstDay + NumDays)

----------------------------------------------------------------------------
(* Date conversions *)

\* date.toISOString().split('T')[0]
ISODate(t) == t \div HoursPerDay

\* AnnualLeavesService.formatDate(Date): local getFullYear/getMonth/getDate
LocalDate(t) == (t + cfg.procOffset) \div HoursPerDay

\* new Date("YYYY-MM-DD"): midnight UTC of that day
ParseDate(d) == d * HoursPerDay

\* Date.prototype.getDay(): day of week of the process-local date, 0 = Sunday
getDay(t) == (LocalDate(t) + EpochDay) % 7

\* the civil date and day of week in config.timezone (node-cron's zone)
ZoneDate(t) == (t + ZoneOffset) \div HoursPerDay
ZoneDayOfWeek(t) == (ZoneDate(t) + EpochDay) % 7

\* AnnualLeavesService.formatDate: a string is returned as it is
formatDateString(d) == d

----------------------------------------------------------------------------
(* AnnualLeavesService *)

LeaveRecords ==
  { [startDate |-> 3, endDate |-> 3, reason |-> "trip"],
    [startDate |-> 3, endDate |-> 4, reason |-> "trip"],
    [startDate |-> 4, endDate |-> 4, reason |-> "trip"],
    [startDate |-> 5, endDate |-> 5, reason |-> ""] }

\* possible contents of annual-leaves.json: no file, unparsable, or a list
StoreContents ==
  { [kind |-> "missing", list |-> << >>],
    [kind |-> "invalid", list |-> << >>] }
  \cup { [kind |-> "ok", list |-> l] :
           l \in { << >> } \cup { <<r>> : r \in LeaveRecords }
}

\* loadLeaves(): the pair <<leaves, lastLoadTime>> it leaves behind
loadLeaves(st, t, oldLoad) ==
  IF st.kind = "ok" THEN <<st.list, t>> ELSE << << >>, oldLoad >>

\* isCacheValid()
leavesCacheValid(t) ==
  /\ lastLoadTime # NullTime
  /\ t - lastLoadTime < LeaveCacheValidHours

\* a getLeaves that keeps the list it had when the read fails
getLeavesKeepsStale(t) ==
  IF leavesCacheValid(t) \/ store.kind # "ok" THEN <<leaves, lastLoadTime>>
  ELSE loadLeaves(store, t, lastLoadTime)

\* getLeaves(): the pair <<leaves, lastLoadTime>> after the call
getLeaves(t) ==
  IF leavesCacheValid(t) THEN <<leaves, lastLoadTime>>
  ELSE loadLeaves(store, t, lastLoadTime)

\* the range test with the end date excluded
InLeaveRangeEndExcluded(leave, d) ==
  /\ ParseDate(d) >= ParseDate(leave.startDate)
  /\ ParseDate(d) < ParseDate(leave.endDate)

\* the inclusive range test of isAnnualLeave / getLeaveDetails
InLeaveRange(leave, d) ==
  /\ ParseDate(d) >= ParseDate(leave.startDate)
  /\ ParseDate(d) <= ParseDate(leave.endDate)

\* getLeaveDetails(dateStr) over a list: the first matching record, as a
\* set with zero or one element (null is the empty set)
getLeaveDetails(list, d) ==
  LET hits == {i \in 1..Len(list) : InLeaveRange(list[i], d)}
  IN IF hits = {} THEN {}
     ELSE {list[CHOOSE i \in hits : \A j \in hits : i <= j]}

\* AnnualLeavesService.shouldSkipTask(dateStr) over a list
leaveShouldSkipTask(list, d) ==
  LET leave == getLeaveDetails(list, d)
  IN [shouldSkip |-> leave # {},
      reason |-> IF leave # {} THEN "AnnualLeave" ELSE "none",
      date |-> formatDateString(d),
      leave |-> leave]

----------------------------------------------------------------------------
(* HolidayService *)

HolidayRecords == { [date |-> d, summary |-> "holiday"] : d \in {4, 5} }

\* lists the calendar provider may answer with
ProviderLists == { << >> } \cup { <<h>> : h \in HolidayRecords }

\* isCacheValid()
holidayCacheValid(t) ==
  /\ cache.lastFetched # NullTime
  /\ Len(cache.holidays) # 0
  /\ t - cache.lastFetched < CacheValidHours

\* a getHolidays that forgets its cache when the fetch throws
cacheAfterFetchClearedOnFailure(c, failed, list, t) ==
  IF failed THEN [holidays |-> << >>, lastFetched |-> NullTime]
  ELSE [holidays |-> list, lastFetched |-> t]

\* getHolidays() after `await this.fetchHolidays(...)`: a throw leaves the
\* method before the two cache assignments
cacheAfterFetch(c, failed, list, t) ==
  IF failed THEN c
  ELSE [holidays |-> list, lastFetched |-> t]

\* isWeekday(date)
isWeekday(t) == getDay(t) >= 1 /\ getDay(t) <= 5

\* isHoliday(date) over the list getHolidays returned: holidays.find(...)
isHoliday(list, t) ==
  LET hits == {i \in 1..Len(list) : list[i].date = ISODate(t)}
  IN IF hits = {} THEN {}
     ELSE {list[CHOOSE i \in hits : \A j \in hits : i <= j]}

\* shouldSkipTask skipping the task when the holiday check fails
holidayShouldSkipTaskFailClosed(t, list, failed) ==
  IF ~isWeekday(t)
    THEN [shouldSkip |-> TRUE, reason |-> "Weekend",
          date |-> ISODate(t), record |-> {}]
  ELSE IF failed
    THEN [shouldSkip |-> TRUE, reason |-> "HolidayCheckFailed",
          date |-> ISODate(t), record |-> {}]
  ELSE IF isHoliday(list, t) # {}
    THEN [shouldSkip |-> TRUE, reason |-> "PublicHoliday",
          date |-> ISODate(t), record |-> isHoliday(list, t)]
  ELSE [shouldSkip |-> FALSE, reason |-> "RegularWorkingDay",
        date |-> ISODate(t), record |-> {}]

\* HolidayService.shouldSkipTask(date) once getHolidays has answered with
\* `list`, or has thrown (failed)
holidayShouldSkipTask(t, list, failed) ==
  IF ~isWeekday(t)
    THEN [shouldSkip |-> TRUE, reason |-> "Weekend",
          date |-> ISODate(t), record |-> {}]
  ELSE IF failed
    THEN [shouldSkip |-> FALSE, reason |-> "HolidayCheckFailed",
          date |-> ISODate(t), record |-> {}]
  ELSE IF isHoliday(list, t) # {}
    THEN [shouldSkip |-> TRUE, reason |-> "PublicHoliday",
          date |-> ISODate(t), record |-> isHoliday(list, t)]
  ELSE [shouldSkip |-> FALSE, reason |-> "RegularWorkingDay",
        date |-> ISODate(t), record |-> {}]

----------------------------------------------------------------------------
(* SchedulerService.executeWithRetry *)

\* the catch block retrying while attempt <= maxAttempts (one attempt too many)
retryFailureOffByOne(c) ==
  IF cfg.retryMechanism /\ c.attempt <= cfg.maxAttempts
    THEN [c EXCEPT !.status = "timer", !.due = now + RetryDelayHours,
                   !.events = @ \cup {<<"failed", c.attempt>>,
                                      <<"schedulingRetry", c.attempt + 1>>}]
  ELSE IF ~cfg.retryMechanism
    THEN [c EXCEPT !.status = "failed",
                   !.events = @ \cup {<<"failed", c.attempt>>,
                                      <<"retryDisabled", c.attempt>>}]
  ELSE [c EXCEPT !.status = "failed",
                 !.events = @ \cup {<<"failed", c.attempt>>,
                                    <<"givingUp", c.attempt>>}]

\* the catch block retrying whatever the feature flag says
retryFailureFlagIgnored(c) ==
  IF c.attempt < cfg.maxAttempts
    THEN [c EXCEPT !.status = "timer", !.due = now + RetryDelayHours,
                   !.events = @ \cup {<<"failed", c.attempt>>,
                                      <<"schedulingRetry", c.attempt + 1>>}]
  ELSE [c EXCEPT !.status = "failed",
                 !.events = @ \cup {<<"failed", c.attempt>>,
                                    <<"givingUp", c.attempt>>}]

\* a catch block that retries at once, with no delay
retryFailureNoDelay(c) ==
  IF cfg.retryMechanism /\ c.attempt < cfg.maxAttempts
    THEN [c EXCEPT !.status = "timer", !.due = now,
                   !.events = @ \cup {<<"failed", c.attempt>>,
                                      <<"schedulingRetry", c.attempt + 1>>}]
  ELSE IF ~cfg.retryMechanism
    THEN [c EXCEPT !.status = "failed",
                   !.events = @ \cup {<<"failed", c.attempt>>,
                                      <<"retryDisabled", c.attempt>>}]
  ELSE [c EXCEPT !.status = "failed",
                 !.events = @ \cup {<<"failed", c.attempt>>,
                                    <<"givingUp", c.attempt>>}]

\* the catch block: log the failure, then schedule a retry or give up
retryFailure(c) ==
  IF cfg.retryMechanism /\ c.attempt < cfg.maxAttempts
    THEN [c EXCEPT !.status = "timer", !.due = now + RetryDelayHours,
                   !.events = @ \cup {<<"failed", c.attempt>>,
                                      <<"schedulingRetry", c.attempt + 1>>}]
  ELSE IF ~cfg.retryMechanism
    THEN [c EXCEPT !.status = "failed",
                   !.events = @ \cup {<<"failed", c.attempt>>,
                                      <<"retryDisabled", c.attempt>>}]
  ELSE [c EXCEPT !.status = "failed",
                 !.events = @ \cup {<<"failed", c.attempt>>,
                                    <<"givingUp", c.attempt>>}]

\* the try block logging the retry success on every attempt
retrySuccessAlwaysLogged(c) ==
  [c EXCEPT !.status = "succeeded",
            !.events = @ \cup {<<"succeededOnRetry", c.attempt>>}]

\* the try block after `await callback()` returned
retrySuccess(c) ==
  [c EXCEPT !.status = "succeeded",
            !.events = IF c.attempt > 1
                         THEN @ \cup {<<"succeededOnRetry", c.attempt>>}
                         ELSE @]

\* an executeWithRetry whose try block does not cover a synchronous throw
executeWithRetryNoCatch(c, attempt, how) ==
  LET inv == [c EXCEPT !.attempt = attempt, !.invoked = @ + 1,
                       !.status = "running", !.due = NullTime]
  IN IF how = "throws" THEN [inv EXCEPT !.status = "escaped"] ELSE inv

\* executeWithRetry(callback, taskName, attempt) up to its first suspension:
\* callback() is invoked; it either throws at once or returns a pending promise
executeWithRetry(c, attempt, how) ==
  LET inv == [c EXCEPT !.attempt = attempt, !.invoked = @ + 1,
                       !.status = "running", !.due = NullTime]
  IN IF how = "throws" THEN retryFailure(inv) ELSE inv

NewChain(t) ==
  [trigger |-> t, attempt |-> 0, invoked |-> 0, status |-> "new",
   due |-> NullTime, events |-> {}]

InFlight(t) == {i \in 1..Len(chains) :
                  chains[i].trigger = t /\ chains[i].status = "running"}
PendingTimers == {i \in 1..Len(chains) : chains[i].status = "timer"}

----------------------------------------------------------------------------
(* ClockService and BotService: labels, outcomes, operation records *)

\* button texts, as sequences of words
ClockInText == <<"Clock", "In">>
ClockOutText == <<"Clock", "Out">>
OtherText == <<"Please", "wait">>

\* String.prototype.includes, on sequences of words
includes(label, text) ==
  \E k \in 1..(Len(label) - Len(text) + 1) :
    SubSeq(label, k, k + Len(text) - 1) = text

\* what the clock button shows once the site has processed a click on it
Toggle(label) == IF label = ClockInText THEN ClockOutText ELSE ClockInText

\* ClockAction, and the action the work unit of each trigger performs
ClockActions == {"clock-in", "clock-out"}
ActionOf(t) == IF t = "clockIn" THEN "clock-in" ELSE "clock-out"

\* the text clockIn / clockOut take as "already done", and the expectedText
\* they pass to performClockAction
AlreadyText(action) == IF action = "clock-in" THEN ClockOutText ELSE ClockInText
ExpectedText(action) == IF action = "clock-in" THEN ClockOutText ELSE ClockInText

\* the early return testing for the action's own button text
alreadyDoneSwapped(action, status) ==
  includes(status, IF action = "clock-in" THEN ClockInText ELSE ClockOutText)

\* the test of lines 42 and 66: currentStatus.includes(...)
alreadyDone(action, status) == includes(status, AlreadyText(action))

\* an outcome asking for the activity step after every performed action
clockOutcomeAlwaysSave(action, performed) ==
  [performed |-> performed, shouldSaveActivity |-> performed]

\* the values clockIn / clockOut return
clockOutcome(action, performed) ==
  [performed |-> performed,
   shouldSaveActivity |-> performed /\ action = "clock-in"]

\* a verification wait that resolves whatever the button shows
verifiedAlways(action, seen) == TRUE

\* waitForButtonTextChange: the wait resolves when the text shown includes
\* expectedText, and times out otherwise
verified(action, seen) == includes(seen, ExpectedText(action))

\* the executeOperation run of one work-unit invocation; browser is the state
\* of the BrowserService it created: "null", "launched" (no page), "ready"
NoOp ==
  [attempt |-> 0, action |-> "none", pc |-> "none", target |-> 0,
   status |-> << >>, clicks |-> 0, observed |-> << >>, result |-> {},
   error |-> FALSE, saved |-> FALSE, success |-> FALSE, browser |-> "null"]

----------------------------------------------------------------------------
(* State after init(): both services constructed, triggers registered *)

Configs ==
  [retryMechanism : BOOLEAN, maxAttempts : 1..MaxAttemptsBound,
   skipOnAnnualLeaves : BOOLEAN, skipOnHolidays : BOOLEAN,
   procOffset : {0, ZoneOffset}, holidayDetection : {TRUE},
   leavesFilePath : {"default"}]

OneLeave == [kind |-> "ok",
             list |-> <<[startDate |-> 3, endDate |-> 4, reason |-> "trip"]>>]

\* deployments explored: the retry settings with the skip features switched
\* off, and the skip features with the retry feature switched off
RetrySetups ==
  { [cfg |-> c, tasks |-> {"clockIn"}, skipOnHoliday |-> TRUE, store |-> OneLeave] :
      c \in { k \in Configs : /\ ~k.skipOnAnnualLeaves /\ ~k.skipOnHolidays
                              /\ k.procOffset = ZoneOffset } }

SkipSetups ==
  { [cfg |-> c, tasks |-> {"clockIn"}, skipOnHoliday |-> o, store |-> st] :
      c \in { k \in Configs : ~k.retryMechanism /\ k.maxAttempts = 3 },
      o \in BOOLEAN, st \in StoreContents } \
  { su \in [cfg : Configs, tasks : {{"clockIn"}}, skipOnHoliday : {FALSE},
            store : StoreContents] :
      ~(su.cfg.skipOnAnnualLeaves /\ su.cfg.skipOnHolidays /\ su.store = OneLeave) }

\* both features at once, and two triggers sharing the services
MixedSetups ==
  { [cfg |-> [retryMechanism |-> TRUE, maxAttempts |-> 2,
              skipOnAnnualLeaves |-> TRUE, skipOnHolidays |-> TRUE,
              procOffset |-> ZoneOffset, holidayDetection |-> TRUE,
              leavesFilePath |-> "default"],
     tasks |-> {"clockIn"}, skipOnHoliday |-> TRUE, store |-> OneLeave],
    [cfg |-> [retryMechanism |-> FALSE, maxAttempts |-> 3,
              skipOnAnnualLeaves |-> TRUE, skipOnHolidays |-> TRUE,
              procOffset |-> ZoneOffset, holidayDetection |-> TRUE,
              leavesFilePath |-> "default"],
     tasks |-> {"clockIn", "clockOut"}, skipOnHoliday |-> TRUE,
     store |-> OneLeave] }

\* the hourly time-log trigger as init() registers it: scheduleHourly with
\* no options
HourlySetups ==
  { [cfg |-> [retryMechanism |-> FALSE, maxAttempts |-> 3,
              skipOnAnnualLeaves |-> TRUE, skipOnHolidays |-> TRUE,
              procOffset |-> ZoneOffset, holidayDetection |-> TRUE,
              leavesFilePath |-> "default"],
     tasks |-> {"hourly"}, skipOnHoliday |-> TRUE, store |-> OneLeave] }

\* FEATURE_HOLIDAY_DETECTION=false with holiday skipping left on
DetectionOffSetups ==
  { [cfg |-> [retryMechanism |-> FALSE, maxAttempts |-> 3,
              skipOnAnnualLeaves |-> FALSE, skipOnHolidays |-> TRUE,
              procOffset |-> ZoneOffset, holidayDetection |-> FALSE,
              leavesFilePath |-> "default"],
     tasks |-> {"clockIn"}, skipOnHoliday |-> TRUE, store |-> OneLeave] }

\* ANNUAL_LEAVES_FILE_PATH names a file of its own: that file holds a leave
\* record, annual-leaves.json in the root directory holds none
ConfiguredFile == OneLeave
CustomPathSetups ==
  { [cfg |-> [retryMechanism |-> FALSE, maxAttempts |-> 3,
              skipOnAnnualLeaves |-> TRUE, skipOnHolidays |-> FALSE,
              procOffset |-> ZoneOffset, holidayDetection |-> TRUE,
              leavesFilePath |-> "custom"],
     tasks |-> {"clockIn"}, skipOnHoliday |-> TRUE,
     store |-> [kind |-> "ok", list |-> << >>]] }

Setups == RetrySetups \cup SkipSetups \cup MixedSetups \cup HourlySetups
          \cup DetectionOffSetups \cup CustomPathSetups

NoTick == [trigger |-> "none", outcome |-> "none", reason |-> "none",
           date |-> NullTime, record |-> {}, chain |-> 0]

NotStopped == [called |-> FALSE, running |-> {}, timers |-> {}]

NoQuery == [shouldSkip |-> FALSE, reason |-> "none", date |-> NullTime,
            leave |-> {}, asked |-> FALSE]

StartTime == FirstDay * HoursPerDay + 1

InitScheduler(setups) ==
  /\ \E su \in setups :
        /\ cfg = su.cfg
        /\ tasks = su.tasks
        /\ options = [t \in Triggers |-> su.skipOnHoliday]
        /\ store = su.store
  /\ now = StartTime
  /\ isRunning = [t \in Triggers |-> FALSE]
  /\ waiting = << >>
  /\ chains = << >>
  /\ lastTick = NoTick
  /\ cache = [holidays |-> << >>, lastFetched |-> NullTime]
  /\ leaves = loadLeaves(store, StartTime, NullTime)[1]
  /\ lastLoadTime = loadLeaves(store, StartTime, NullTime)[2]
  /\ leaveQuery = NoQuery
  /\ stopped = NotStopped
  /\ proc = "running"

\* the site as the bot finds it, and the BotService instance init() creates
InitBot(buttons, activity, configs) ==
  /\ site \in [button : buttons, activityAvailable : activity]
  /\ botService \in [config : configs, owner : {0}]
  /\ ops = [i \in 1..MaxChains |-> NoOp]

BotConfigs == [activityConfigured : BOOLEAN, clockOutConfirmButton : BOOLEAN]

InitWith(setups) ==
  /\ InitScheduler(setups)
  /\ InitBot({ClockInText}, {TRUE},
             {[activityConfigured |-> TRUE, clockOutConfirmButton |-> FALSE]})

Init == InitWith(Setups)

----------------------------------------------------------------------------
(* SchedulerService.scheduleTask: the cron callback *)

Hows == {"pending", "throws"}

TickLog(t, outcome, reason, date, record, chain) ==
  [trigger |-> t, outcome |-> outcome, reason |-> reason, date |-> date,
   record |-> record, chain |-> chain]

\* the finally callback left out: the guard is never released
releaseGuardSkipped(running, t) == running

\* the finally callback of line 123: isRunning = false
releaseGuard(running, t) == [running EXCEPT ![t] = FALSE]

\* lines 118-123: isRunning = true; Promise.resolve().then(executeWithRetry)
\* .catch(...).finally(isRunning = false).  The promise chain runs in the
\* microtasks of the same turn up to the first suspension of callback(); when
\* callback() throws at once, the finally runs in that turn too.
startExecution(t, how, reason, date) ==
  /\ Len(chains) < MaxChains
  /\ chains' = Append(chains, executeWithRetry(NewChain(t), 1, how))
  /\ isRunning' = IF how = "throws"
                    THEN releaseGuard([isRunning EXCEPT ![t] = TRUE], t)
                    ELSE [isRunning EXCEPT ![t] = TRUE]
  /\ lastTick' = TickLog(t, "started", reason, date, {}, Len(chains) + 1)

\* a skip that marks the trigger as running before it returns
skipForHolidayMarksRunning(t, hd) ==
  /\ lastTick' = TickLog(t, "skipped", hd.reason, hd.date, hd.record, 0)
  /\ isRunning' = [isRunning EXCEPT ![t] = TRUE]
  /\ UNCHANGED chains

\* lines 105-111: the holiday check asked to skip
skipForHoliday(t, hd) ==
  /\ lastTick' = TickLog(t, "skipped", hd.reason, hd.date, hd.record, 0)
  /\ UNCHANGED <<isRunning, chains>>

\* the cron callback consulting the holiday check before the leave check
tickBranchHolidayFirst(running, checkLeaves, onLeave, checkHolidays, needsFetch, holidaySkip) ==
  IF running THEN "dropped"
  ELSE IF checkHolidays /\ needsFetch THEN "suspend"
  ELSE IF checkHolidays /\ holidaySkip THEN "skipHoliday"
  ELSE IF checkLeaves /\ onLeave THEN "skipLeave"
  ELSE "start"

\* the cron callback without its overlap guard
tickBranchGuardIgnored(running, checkLeaves, onLeave, checkHolidays, needsFetch, holidaySkip) ==
  IF checkLeaves /\ onLeave THEN "skipLeave"
  ELSE IF checkHolidays /\ needsFetch THEN "suspend"
  ELSE IF checkHolidays /\ holidaySkip THEN "skipHoliday"
  ELSE "start"

\* the path the cron callback takes (lines 78-116), from the overlap guard,
\* the result of the leave check and what the holiday check will need
tickBranch(running, checkLeaves, onLeave, checkHolidays, needsFetch, holidaySkip) ==
  IF running THEN "dropped"
  ELSE IF checkLeaves /\ onLeave THEN "skipLeave"
  ELSE IF checkHolidays /\ needsFetch THEN "suspend"
  ELSE IF checkHolidays /\ holidaySkip THEN "skipHoliday"
  ELSE "start"

\* the leave list and load time after the leave check of a tick, if it runs
leavesAfterTick(t) ==
  IF ~isRunning[t] /\ options[t] /\ cfg.skipOnAnnualLeaves
    THEN getLeaves(now) ELSE <<leaves, lastLoadTime>>

\* the branch the cron callback of trigger t takes in the current state
branchOfTick(t) ==
  tickBranch(isRunning[t],
             options[t] /\ cfg.skipOnAnnualLeaves,
             leaveShouldSkipTask(leavesAfterTick(t)[1], LocalDate(now)).shouldSkip,
             options[t] /\ cfg.skipOnHolidays,
             isWeekday(now) /\ ~holidayCacheValid(now),
             holidayShouldSkipTask(now, cache.holidays, FALSE).shouldSkip)

\* the cron callback of trigger t, up to its return or to its suspension in
\* `await this.holidayService.shouldSkipTask()` on a provider fetch
Tick(t) ==
  /\ proc = "running"
  /\ t \in tasks
  /\ leaves' = leavesAfterTick(t)[1]
  /\ lastLoadTime' = leavesAfterTick(t)[2]
  /\ LET branch == branchOfTick(t)
         al == leaveShouldSkipTask(leavesAfterTick(t)[1], LocalDate(now))
         checkHolidays == options[t] /\ cfg.skipOnHolidays
         hd == holidayShouldSkipTask(now, cache.holidays, FALSE)
     IN CASE branch = "dropped" ->
               /\ lastTick' = TickLog(t, "dropped", "StillRunning", NullTime, {}, 0)
               /\ UNCHANGED <<isRunning, waiting, chains>>
          [] branch = "skipLeave" ->
               /\ lastTick' = TickLog(t, "skipped", al.reason, al.date, al.leave, 0)
               /\ UNCHANGED <<isRunning, waiting, chains>>
          [] branch = "suspend" ->
               \* getHolidays() awaits fetchHolidays()
               /\ Len(waiting) < MaxWaiting
               /\ waiting' = Append(waiting, [trigger |-> t, at |-> now])
               /\ UNCHANGED <<isRunning, chains, lastTick>>
          [] branch = "skipHoliday" ->
               /\ skipForHoliday(t, hd)
               /\ UNCHANGED waiting
          [] branch = "start" ->
               /\ \E how \in Hows :
                    startExecution(t, how,
                       IF checkHolidays THEN hd.reason ELSE "none",
                       IF checkHolidays THEN hd.date ELSE NullTime)
               /\ UNCHANGED waiting
  /\ UNCHANGED <<cfg, tasks, options, now, cache, store, leaveQuery>>
  /\ UNCHANGED <<botVars, stopped, proc>>

RemoveAt(seq, i) == SubSeq(seq, 1, i - 1) \o SubSeq(seq, i + 1, Len(seq))

\* a provider fetch answers (with a list) or fails: getHolidays updates the
\* cache or throws, shouldSkipTask decides, and the suspended cron callback
\* resumes at line 105
FetchReturn(i, failed, list) ==
  /\ i \in 1..Len(waiting)
  /\ LET w == waiting[i]
         hd == holidayShouldSkipTask(w.at, list, failed)
     IN /\ cache' = cacheAfterFetch(cache, failed, list, now)
        /\ waiting' = RemoveAt(waiting, i)
        /\ IF hd.shouldSkip
             THEN skipForHoliday(w.trigger, hd)
             ELSE \E how \in Hows :
                    startExecution(w.trigger, how, hd.reason, hd.date)
  /\ UNCHANGED <<cfg, tasks, options, now, leaves, lastLoadTime, store, leaveQuery>>
  /\ UNCHANGED <<botVars, stopped, proc>>

FetchOk(i) == \E list \in ProviderLists : FetchReturn(i, FALSE, list)
FetchFail(i) == FetchReturn(i, TRUE, << >>)

\* the promise returned by callback() settles: the rest of executeWithRetry
\* runs; for attempt 1 the promise chain of the tick then reaches its finally
settle(i, ok) ==
  /\ i \in 1..Len(chains)
  /\ chains[i].status = "running"
  /\ chains' = [chains EXCEPT ![i] =
                  IF ok THEN retrySuccess(@) ELSE retryFailure(@)]
  /\ isRunning' = IF chains[i].attempt = 1
                    THEN releaseGuard(isRunning, chains[i].trigger)
                    ELSE isRunning
  /\ UNCHANGED <<cfg, tasks, options, now, waiting, lastTick, cache,
                 leaves, lastLoadTime, store, leaveQuery>>

\* a work unit settles whose steps are not followed (the generic work unit)
WorkDone(i, ok) ==
  /\ settle(i, ok)
  /\ UNCHANGED <<botVars, stopped, proc>>

\* a retry timer whose callback re-enters executeWithRetry with the default
\* attempt number
TimerFireFreshCounter(i, how) ==
  /\ i \in 1..Len(chains)
  /\ chains[i].status = "timer"
  /\ now >= chains[i].due
  /\ chains' = [chains EXCEPT ![i] =
                  executeWithRetry(
                    [@ EXCEPT !.events = @ \cup {<<"retryAttempt", chains[i].attempt + 1>>}],
                    1, how)]
  /\ UNCHANGED <<cfg, tasks, options, now, isRunning, waiting, lastTick, cache,
                 leaves, lastLoadTime, store, leaveQuery>>
  /\ UNCHANGED <<botVars, stopped, proc>>

\* a retry timer that stopAll() has cleared: its callback gives the chain up
TimerFireCancelled(i, how) ==
  /\ i \in 1..Len(chains)
  /\ chains[i].status = "timer"
  /\ now >= chains[i].due
  /\ chains' = [chains EXCEPT ![i] =
                  IF stopped.called
                    THEN [@ EXCEPT !.status = "failed"]
                    ELSE executeWithRetry(
                           [@ EXCEPT !.events = @ \cup {<<"retryAttempt", chains[i].attempt + 1>>}],
                           chains[i].attempt + 1, how)]
  /\ UNCHANGED <<cfg, tasks, options, now, isRunning, waiting, lastTick, cache,
                 leaves, lastLoadTime, store, leaveQuery>>
  /\ UNCHANGED <<botVars, stopped, proc>>

\* the setTimeout callback of lines 49-52
TimerFire(i, how) ==
  /\ i \in 1..Len(chains)
  /\ chains[i].status = "timer"
  /\ now >= chains[i].due
  /\ chains' = [chains EXCEPT ![i] =
                  executeWithRetry(
                    [@ EXCEPT !.events = @ \cup {<<"retryAttempt", chains[i].attempt + 1>>}],
                    chains[i].attempt + 1, how)]
  /\ UNCHANGED <<cfg, tasks, options, now, isRunning, waiting, lastTick, cache,
                 leaves, lastLoadTime, store, leaveQuery>>
  /\ UNCHANGED <<botVars, stopped, proc>>

\* the clock moves on to a later sampled instant; a timer that is due runs
\* before the clock moves further
Advance(t) ==
  /\ t \in Times
  /\ t > now
  /\ \A i \in PendingTimers : chains[i].due > now
  /\ now' = t
  /\ UNCHANGED <<cfg, tasks, options, isRunning, waiting, chains, lastTick, cache,
                 leaves, lastLoadTime, store, leaveQuery>>
  /\ UNCHANGED <<botVars, stopped, proc>>

\* AnnualLeavesService.shouldSkipTask(dateString), called directly
CheckLeave(d) ==
  /\ d \in DateStrings
  /\ leaves' = getLeaves(now)[1]
  /\ lastLoadTime' = getLeaves(now)[2]
  /\ leaveQuery' = [shouldSkip |-> leaveShouldSkipTask(leaves', d).shouldSkip,
                    reason |-> leaveShouldSkipTask(leaves', d).reason,
                    date |-> leaveShouldSkipTask(leaves', d).date,
                    leave |-> leaveShouldSkipTask(leaves', d).leave,
                    asked |-> TRUE]
  /\ UNCHANGED <<cfg, tasks, options, now, isRunning, waiting, chains, lastTick,
                 cache, store>>
  /\ UNCHANGED <<botVars, stopped, proc>>

----------------------------------------------------------------------------
(* AnnualLeavesService.addLeave / removeLeave / saveToFile, and the file   *)
(* edited from outside the process                                         *)

\* a start date that no record of the list carries
BadDate == 0 - 2
EditDates == {FirstDay, FirstDay + 1, BadDate}

\* The strings handed to addLeave: wellFormed says whether the text matches
\* /^\d{4}-\d{2}-\d{2}$/, month and day are its two-digit fields; the year is
\* 1970.  [TRUE, 2, 30] is "1970-02-30", [TRUE, 13, 1] is "1970-13-01" and
\* [FALSE, 1, 4] is "04-01-1970".
DateText(wf, m, d) == [wellFormed |-> wf, month |-> m, day |-> d]
DateTexts == {DateText(TRUE, 1, 4), DateText(TRUE, 1, 5), DateText(TRUE, 2, 30),
              DateText(TRUE, 13, 1), DateText(FALSE, 1, 4)}

\* the <<startDate, endDate>> pairs addLeave is called with
AddLeaveCalls ==
  {<<DateText(TRUE, 1, 4), DateText(TRUE, 1, 5)>>,
   <<DateText(TRUE, 1, 5), DateText(TRUE, 1, 5)>>,
   <<DateText(TRUE, 1, 5), DateText(TRUE, 1, 4)>>,
   <<DateText(TRUE, 1, 4), DateText(TRUE, 2, 30)>>,
   <<DateText(TRUE, 13, 1), DateText(TRUE, 1, 5)>>,
   <<DateText(TRUE, 1, 4), DateText(FALSE, 1, 4)>>}

DaysInMonth(m) ==
  IF m = 2 THEN 28 ELSE IF m \in {4, 6, 9, 11} THEN 30 ELSE 31

RECURSIVE DaysBefore(_)
DaysBefore(m) == IF m <= 1 THEN 0 ELSE DaysBefore(m - 1) + DaysInMonth(m - 1)

\* new Date(text) as a day number: NaN for a month outside 01..12 or a day
\* outside 01..31, otherwise the day carried over into the next month
NaN == 0 - 3
parseDate(s) ==
  IF s.month \in 1..12 /\ s.day \in 1..31
    THEN DaysBefore(s.month) + s.day - 1
    ELSE NaN

\* d.toISOString().split('T')[0] of a day number of 1970
toISODate(n) ==
  LET m == CHOOSE k \in 1..12 :
             DaysBefore(k) <= n /\ n < DaysBefore(k) + DaysInMonth(k)
  IN  DateText(TRUE, m, n - DaysBefore(m) + 1)

\* isValidDate(date): the regex, the NaN test and the toISOString round trip
isValidDateNoRoundTrip(s) ==
  /\ s.wellFormed
  /\ parseDate(s) # NaN

isValidDate(s) ==
  /\ s.wellFormed
  /\ parseDate(s) # NaN
  /\ toISODate(parseDate(s)) = s

\* startDate > endDate on two strings of the form YYYY-MM-DD
textAfter(a, b) ==
  \/ a.month > b.month
  \/ a.month = b.month /\ a.day > b.day

\* the two early returns of addLeave do not happen
addLeaveAccepts(startDate, endDate) ==
  /\ isValidDate(startDate) /\ isValidDate(endDate)
  /\ ~textAfter(startDate, endDate)

\* this.leaves.filter(leave => leave.startDate !== startDate)
withoutStart(list, startDate) ==
  SelectSeq(list, LAMBDA leave : leave.startDate # startDate)

\* saveToFile(): the pair <<store, lastLoadTime>> it leaves behind; when
\* writeFileSync throws (not writable) the catch block only logs
saveToFile(list, t, writable) ==
  IF writable THEN <<[kind |-> "ok", list |-> list], t>>
  ELSE <<store, lastLoadTime>>

\* addLeave(startDate, endDate, reason)
AddLeave(startDate, endDate, reason, writable) ==
  /\ Len(leaves) < MaxLeaves
  /\ IF addLeaveAccepts(startDate, endDate)
       THEN /\ leaves' = Append(leaves, [startDate |-> parseDate(startDate),
                                          endDate |-> parseDate(endDate),
                                          type |-> "annual",
                                          reason |-> reason])
            /\ store' = saveToFile(leaves', now, writable)[1]
            /\ lastLoadTime' = saveToFile(leaves', now, writable)[2]
       ELSE UNCHANGED <<leaves, store, lastLoadTime>>
  /\ UNCHANGED <<cfg, tasks, options, now, isRunning, waiting, chains, lastTick,
                 cache, leaveQuery>>
  /\ UNCHANGED <<botVars, stopped, proc>>

\* removeLeave(startDate)
RemoveLeave(startDate, writable) ==
  /\ leaves' = withoutStart(leaves, startDate)
  /\ IF Len(leaves') < Len(leaves)
       THEN /\ store' = saveToFile(leaves', now, writable)[1]
            /\ lastLoadTime' = saveToFile(leaves', now, writable)[2]
       ELSE UNCHANGED <<store, lastLoadTime>>
  /\ UNCHANGED <<cfg, tasks, options, now, isRunning, waiting, chains, lastTick,
                 cache, leaveQuery>>
  /\ UNCHANGED <<botVars, stopped, proc>>

\* the owner of the file replaces, breaks or deletes annual-leaves.json
StoreEdit(st) ==
  /\ st \in StoreContents
  /\ st # store
  /\ store' = st
  /\ UNCHANGED <<cfg, tasks, options, now, isRunning, waiting, chains, lastTick,
                 cache, leaves, lastLoadTime, leaveQuery>>
  /\ UNCHANGED <<botVars, stopped, proc>>

----------------------------------------------------------------------------
(* BotService.executeOperation, step by step.  Each action is the part of  *)
(* the run between two suspensions; the service fields of the shared       *)
(* BotService (this.authService, this.clockService, ...) are read when a   *)
(* call is made, so each step records in `target` whose services the next  *)
(* call uses.                                                              *)

schedVars == <<cfg, tasks, options, now, isRunning, waiting, chains, lastTick,
               cache, leaves, lastLoadTime, store, leaveQuery, stopped, proc>>

\* the labels a read of the button can return
VisibleLabels == {site.button, OtherText}

\* the page of the BrowserService created for chain j can be used
ready(j) == j \in 1..MaxChains /\ ops[j].browser = "ready"

\* every invocation of the work unit has entered executeOperation: the call
\* is made in the turn that invokes the work unit, before any other event
AllBegun ==
  \A i \in 1..Len(chains) :
    chains[i].status = "running" => ops[i].attempt = chains[i].attempt

\* catch (rethrow) and finally: cleanup() is called on this.browserService
fail(op) == [op EXCEPT !.error = TRUE, !.pc = "cleanup",
                       !.target = botService.owner]

\* an executeOperation that does not ask isConfigured()
afterClockUnconfigured(op, outcome) ==
  IF op.action = "clock-in"
    THEN [op EXCEPT !.result = {outcome}, !.pc = "activity",
                    !.target = botService.owner]
    ELSE [op EXCEPT !.result = {outcome}, !.success = TRUE, !.pc = "cleanup",
                    !.target = botService.owner]

\* lines 274-300 once clockOperation has returned `outcome`: the activity
\* probe is awaited, or the success is logged and cleanup() is called
afterClock(op, outcome) ==
  IF op.action = "clock-in" /\ botService.config.activityConfigured
    THEN [op EXCEPT !.result = {outcome}, !.pc = "activity",
                    !.target = botService.owner]
    ELSE [op EXCEPT !.result = {outcome}, !.success = TRUE, !.pc = "cleanup",
                    !.target = botService.owner]

\* lines 258-269: the work unit calls botService.clockIn() / clockOut();
\* executeOperation replaces the four service fields and calls launch()
BotBegin(i) ==
  /\ i \in 1..Len(chains)
  /\ chains[i].status = "running"
  /\ ops[i].attempt # chains[i].attempt
  /\ ops' = [ops EXCEPT ![i] =
               [NoOp EXCEPT !.attempt = chains[i].attempt,
                            !.action = ActionOf(chains[i].trigger),
                            !.pc = "launch"]]
  /\ botService' = [botService EXCEPT !.owner = i]
  /\ UNCHANGED <<schedVars, site>>

\* BrowserService.launch() settles: puppeteer.launch and newPage succeeded,
\* launch failed, or newPage (or a later page call) failed
Launch(i, outcome) ==
  /\ AllBegun
  /\ i \in 1..Len(chains)
  /\ ops[i].pc = "launch"
  /\ outcome \in {"ok", "launchFailed", "pageFailed"}
  /\ ops' = [ops EXCEPT ![i] =
               CASE outcome = "ok" ->
                      [@ EXCEPT !.browser = "ready", !.pc = "login",
                                !.target = botService.owner]
                 [] outcome = "launchFailed" -> fail(@)
                 [] outcome = "pageFailed" ->
                      fail([@ EXCEPT !.browser = "launched"])]
  /\ UNCHANGED <<schedVars, site, botService>>

\* this.authService.login() settles
Login(i, ok) ==
  /\ AllBegun
  /\ i \in 1..Len(chains)
  /\ ops[i].pc = "login"
  /\ ok => ready(ops[i].target)
  /\ ops' = [ops EXCEPT ![i] =
               IF ok THEN [@ EXCEPT !.pc = "probe", !.target = botService.owner]
               ELSE fail(@)]
  /\ UNCHANGED <<schedVars, site, botService>>

\* ClockService.getCurrentStatus() settles and clockIn / clockOut take their
\* branch: the early return, or on to performClockAction
Probe(i, ok, seen) ==
  /\ AllBegun
  /\ i \in 1..Len(chains)
  /\ ops[i].pc = "probe"
  /\ ok => ready(ops[i].target)
  /\ seen \in VisibleLabels
  /\ ops' = [ops EXCEPT ![i] =
               IF ~ok THEN fail(@)
               ELSE IF alreadyDone(@.action, seen)
                 THEN afterClock([@ EXCEPT !.status = seen],
                                 clockOutcome(@.action, FALSE))
               ELSE [@ EXCEPT !.status = seen, !.pc = "click"]]
  /\ UNCHANGED <<schedVars, site, botService>>

\* performClockAction lines 96-108: wait for the button and click it, then
\* (clock-out with a confirmation modal configured) wait for the modal and
\* click Yes.  The site changes the clock state if the request lands.
Click(i, outcome, lands) ==
  /\ AllBegun
  /\ i \in 1..Len(chains)
  /\ ops[i].pc = "click"
  /\ outcome \in {"noButton", "clicked", "noConfirm"}
  /\ outcome = "clicked" => ready(ops[i].target)
  /\ outcome = "noConfirm" =>
       /\ ready(ops[i].target)
       /\ ops[i].action = "clock-out"
       /\ botService.config.clockOutConfirmButton
  /\ lands => outcome = "clicked"
  /\ LET n == IF ops[i].action = "clock-out"
                   /\ botService.config.clockOutConfirmButton
                THEN 2 ELSE 1
     IN ops' = [ops EXCEPT ![i] =
                  CASE outcome = "noButton" -> fail(@)
                    [] outcome = "noConfirm" ->
                         fail([@ EXCEPT !.clicks = @ + 1])
                    [] outcome = "clicked" ->
                         [@ EXCEPT !.clicks = @ + n, !.pc = "verify"]]
  /\ site' = IF lands THEN [site EXCEPT !.button = Toggle(@)] ELSE site
  /\ UNCHANGED <<schedVars, botService>>

\* performClockAction lines 110-115: waitForButtonTextChange settles
Verify(i, seen) ==
  /\ AllBegun
  /\ i \in 1..Len(chains)
  /\ ops[i].pc = "verify"
  /\ seen \in VisibleLabels
  /\ ops' = [ops EXCEPT ![i] =
               IF ready(@.target) /\ verified(@.action, seen)
                 THEN afterClock([@ EXCEPT !.observed = seen],
                                 clockOutcome(@.action, TRUE))
               ELSE fail([@ EXCEPT !.observed = seen])]
  /\ UNCHANGED <<schedVars, site, botService>>

\* lines 278-293: activityService.isAvailable() settles (false on any error)
Activity(i, avail) ==
  /\ AllBegun
  /\ i \in 1..Len(chains)
  /\ ops[i].pc = "activity"
  /\ avail => ready(ops[i].target) /\ site.activityAvailable
  /\ ops' = [ops EXCEPT ![i] =
               IF avail /\ \E r \in @.result : r.shouldSaveActivity
                 THEN [@ EXCEPT !.pc = "save", !.target = botService.owner]
               ELSE [@ EXCEPT !.success = TRUE, !.pc = "cleanup",
                              !.target = botService.owner]]
  /\ UNCHANGED <<schedVars, site, botService>>

\* line 288: activityService.saveActivity() settles
Save(i, ok) ==
  /\ AllBegun
  /\ i \in 1..Len(chains)
  /\ ops[i].pc = "save"
  /\ ok => ready(ops[i].target)
  /\ ops' = [ops EXCEPT ![i] =
               IF ok THEN [@ EXCEPT !.saved = TRUE, !.success = TRUE,
                                    !.pc = "cleanup",
                                    !.target = botService.owner]
               ELSE fail(@)]
  /\ site' = IF ok THEN [site EXCEPT !.activityAvailable = FALSE] ELSE site
  /\ UNCHANGED <<schedVars, botService>>

\* a cleanup() that leaves the browser it was called on open
OperationEndsLeavesOpen(i) ==
  /\ AllBegun
  /\ i \in 1..Len(chains)
  /\ ops[i].pc = "cleanup"
  /\ ops' = [ops EXCEPT ![i] =
               [NoOp EXCEPT !.attempt = ops[i].attempt, !.pc = "done",
                            !.browser = ops[i].browser]]
  /\ settle(i, ~ops[i].error)
  /\ UNCHANGED <<site, botService, stopped, proc>>

\* cleanup() settles: the browser of the BrowserService it was called on is
\* closed; executeOperation resolves or rejects and executeWithRetry goes on.
\* Of the finished run only its BrowserService object is kept.
OperationEnds(i) ==
  /\ AllBegun
  /\ i \in 1..Len(chains)
  /\ ops[i].pc = "cleanup"
  /\ ops' = [[ops EXCEPT ![ops[i].target].browser = "null"] EXCEPT ![i] =
               [NoOp EXCEPT !.attempt = ops[i].attempt, !.pc = "done",
                            !.browser = IF ops[i].target = i THEN "null"
                                        ELSE ops[i].browser]]
  /\ settle(i, ~ops[i].error)
  /\ UNCHANGED <<site, botService, stopped, proc>>

\* the user clocks in or out by hand on the site
ManualToggle ==
  /\ AllBegun
  /\ site' = [site EXCEPT !.button = Toggle(@)]
  /\ UNCHANGED <<schedVars, botService, ops>>

\* the work units init() registers are async functions: an invocation never
\* throws at once, it returns a promise
BotTick(t) ==
  /\ AllBegun
  /\ Len(chains) < MaxBotChains
  /\ Tick(t)
  /\ Len(chains') > Len(chains) => chains'[Len(chains')].status = "running"

BotTimerFire(i) == AllBegun /\ TimerFire(i, "pending")

BotAdvance(t) == AllBegun /\ Advance(t)

\* a stopAll() that leaves the tasks scheduled
stopAllKeepsTasks(ts) == ts

\* stopAll(): every task is stopped and the list emptied; what is left of
\* SchedulerService.tasks
stopAll(ts) == {}

\* stopAll() is called while the process keeps running
StopAll ==
  /\ ~stopped.called
  /\ tasks' = stopAll(tasks)
  /\ stopped' = [called |-> TRUE,
                 running |-> {i \in 1..Len(chains) : chains[i].status = "running"},
                 timers |-> PendingTimers]
  /\ UNCHANGED <<cfg, options, now, isRunning, waiting, chains, lastTick, cache,
                 leaves, lastLoadTime, store, leaveQuery, botVars, proc>>

\* time passes until the earliest pending retry timer is due
TimerElapses(i) ==
  /\ i \in PendingTimers
  /\ chains[i].due > now
  /\ \A j \in PendingTimers : chains[j].due >= chains[i].due
  /\ now' = chains[i].due
  /\ UNCHANGED <<cfg, tasks, options, isRunning, waiting, chains, lastTick, cache,
                 leaves, lastLoadTime, store, leaveQuery, botVars, stopped, proc>>

----------------------------------------------------------------------------
(* init(): validateConfig, the three registrations, the failure exit *)

RequiredFields ==
  {"website.url", "credentials.username", "credentials.password"}
RequiredSelectors ==
  {"selectors.loginUsername", "selectors.loginPassword",
   "selectors.loginButton", "selectors.clockInButton",
   "selectors.clockOutButton"}
OptionalSettings == {"selectors.clockOutConfirmButton"}
Settings == RequiredFields \cup RequiredSelectors \cup OptionalSettings

\* the triggers whose cron expression comes from the environment
CronConfigured == {"clockIn", "clockOut"}

\* the order in which init() registers the triggers
RegistrationOrder == <<"hourly", "clockIn", "clockOut">>

\* a validateConfig that checks the required fields only
validateConfigFieldsOnly(missing) == missing \cap RequiredFields = {}

\* validateConfig(): true when it returns, false when it throws; `missing`
\* are the settings with no value
validateConfig(missing) ==
  /\ missing \cap RequiredFields = {}
  /\ missing \cap RequiredSelectors = {}

\* the triggers registered before cron.schedule first rejects an expression
registeredBefore(rejected) ==
  { RegistrationOrder[k] : k \in { n \in 1..Len(RegistrationOrder) :
      \A j \in 1..n : RegistrationOrder[j] \notin rejected } }

\* init(), whole: the try block, or the catch block with process.exit(1)
Startup(missing, rejected) ==
  /\ proc = "starting"
  /\ missing \subseteq Settings
  /\ rejected \subseteq CronConfigured
  /\ IF ~validateConfig(missing)
       THEN proc' = "exit1" /\ tasks' = {}
       ELSE /\ tasks' = registeredBefore(rejected)
            /\ proc' = IF rejected = {} THEN "running" ELSE "exit1"
  /\ UNCHANGED <<cfg, options, now, isRunning, waiting, chains, lastTick, cache,
                 leaves, lastLoadTime, store, leaveQuery, botVars, stopped>>

Next ==
  \/ \E t \in Triggers : Tick(t)
  \/ \E i \in 1..MaxWaiting : FetchOk(i)
  \/ \E i \in 1..MaxWaiting : FetchFail(i)
  \/ \E i \in 1..MaxChains, ok \in BOOLEAN : WorkDone(i, ok)
  \/ \E i \in 1..MaxChains, how \in Hows : TimerFire(i, how)
  \/ \E t \in Times : Advance(t)

Spec == Init /\ [][Next]_vars

\* every invocation of the work unit terminates; a fetch answers or fails;
\* a timer that is due fires
Fairness ==
  /\ \A i \in 1..MaxChains : WF_vars(\E ok \in BOOLEAN : WorkDone(i, ok))
  /\ \A i \in 1..MaxChains : WF_vars(\E how \in Hows : TimerFire(i, how))
  /\ \A i \in 1..MaxWaiting : WF_vars(FetchOk(i) \/ FetchFail(i))

FairSpec == InitWith(RetrySetups \cup MixedSetups) /\ [][Next]_vars /\ Fairness

\* the scheduler used with stopAll() called and the process left running
NextStop ==
  \/ Next
  \/ StopAll
  \/ \E i \in 1..MaxChains : TimerElapses(i)

StopSetups ==
  { su \in RetrySetups : su.cfg.maxAttempts = 2 } \cup
  { su \in SkipSetups : /\ su.cfg.skipOnHolidays /\ ~su.cfg.skipOnAnnualLeaves
                        /\ su.cfg.procOffset = ZoneOffset /\ su.skipOnHoliday
                        /\ su.store = OneLeave }

SpecStop ==
  /\ InitWith(StopSetups)
  /\ [][NextStop]_vars
  /\ Fairness
  /\ \A i \in 1..MaxChains : WF_vars(TimerElapses(i))

\* the process from its start: init() runs first
StartupSetups ==
  { [cfg |-> [retryMechanism |-> TRUE, maxAttempts |-> 2,
              skipOnAnnualLeaves |-> FALSE, skipOnHolidays |-> TRUE,
              procOffset |-> ZoneOffset, holidayDetection |-> TRUE,
              leavesFilePath |-> "default"],
     tasks |-> {}, skipOnHoliday |-> TRUE, store |-> OneLeave] }

InitStartup ==
  /\ \E su \in StartupSetups :
        /\ cfg = su.cfg
        /\ options = [t \in Triggers |-> su.skipOnHoliday]
        /\ store = su.store
  /\ tasks = {}
  /\ proc = "starting"
  /\ now = StartTime
  /\ isRunning = [t \in Triggers |-> FALSE]
  /\ waiting = << >>
  /\ chains = << >>
  /\ lastTick = NoTick
  /\ cache = [holidays |-> << >>, lastFetched |-> NullTime]
  /\ leaves = loadLeaves(store, StartTime, NullTime)[1]
  /\ lastLoadTime = loadLeaves(store, StartTime, NullTime)[2]
  /\ leaveQuery = NoQuery
  /\ stopped = NotStopped
  /\ InitBot({ClockInText}, {TRUE},
             {[activityConfigured |-> TRUE, clockOutConfirmButton |-> FALSE]})

\* a cron tick of the started process, while chains may still be started
StartupTick(t) ==
  /\ Len(chains) < MaxStartupChains
  /\ Tick(t)

NextStartup ==
  \/ \E missing \in SUBSET Settings, rejected \in SUBSET CronConfigured :
        Startup(missing, rejected)
  \/ \E t \in Triggers : StartupTick(t)
  \/ \E i \in 1..MaxWaiting : FetchOk(i)
  \/ \E i \in 1..MaxWaiting : FetchFail(i)
  \/ \E i \in 1..MaxChains, ok \in BOOLEAN : WorkDone(i, ok)
  \/ \E i \in 1..MaxChains, how \in Hows : TimerFire(i, how)
  \/ \E t \in Times : Advance(t)

SpecStartup == InitStartup /\ [][NextStartup]_vars

\* the leave service driven through its own interface (as the leave test
\* script does, in a process of its own)
NextLeaves ==
  \/ \E d \in DateStrings : CheckLeave(d)
  \/ \E t \in Times : Advance(t)

SpecLeaves == Init /\ [][NextLeaves]_vars

\* the leave service with its mutations and an editable file, in the
\* scheduler's process: leave skipping on, holiday skipping and retry off
StoreSetups ==
  { su \in SkipSetups : /\ su.cfg.skipOnAnnualLeaves /\ ~su.cfg.skipOnHolidays
                        /\ su.cfg.procOffset = ZoneOffset /\ su.skipOnHoliday
                        /\ su.store \in {OneLeave, [kind |-> "missing", list |-> << >>]} }

\* a cron tick, while chains may still be started
StoreTick(t) ==
  /\ Len(chains) < MaxStoreChains
  /\ Tick(t)

NextStore ==
  \/ \E call \in AddLeaveCalls, w \in BOOLEAN :
        AddLeave(call[1], call[2], "trip", w)
  \/ \E sd \in EditDates, w \in BOOLEAN : RemoveLeave(sd, w)
  \/ \E st \in StoreContents : StoreEdit(st)
  \/ \E t \in Triggers : StoreTick(t)
  \/ \E i \in 1..MaxChains, ok \in BOOLEAN : WorkDone(i, ok)
  \/ \E t \in Times : Advance(t)

SpecStore == InitWith(StoreSetups) /\ [][NextStore]_vars

\* the bot process with the work units of init(): both triggers share one
\* BotService; the skip policy is switched off
BotSetups(t) ==
  { [cfg |-> [retryMechanism |-> TRUE, maxAttempts |-> 2,
              skipOnAnnualLeaves |-> FALSE, skipOnHolidays |-> FALSE,
              procOffset |-> ZoneOffset, holidayDetection |-> TRUE,
              leavesFilePath |-> "default"],
     tasks |-> {t}, skipOnHoliday |-> TRUE, store |-> OneLeave] }

\* the clock-in trigger with and without the activity selectors, the
\* clock-out trigger with and without the confirmation modal
InitBotProcess ==
  \/ /\ InitScheduler(BotSetups("clockIn"))
     /\ InitBot({ClockInText, ClockOutText}, {TRUE},
                {c \in BotConfigs : ~c.clockOutConfirmButton})
  \/ /\ InitScheduler(BotSetups("clockOut"))
     /\ InitBot({ClockInText, ClockOutText}, {TRUE},
                {c \in BotConfigs : c.activityConfigured})

NextBot ==
  \/ \E i \in 1..MaxChains : BotBegin(i)
  \/ \E t \in Triggers : BotTick(t)
  \/ \E i \in 1..MaxChains : BotTimerFire(i)
  \/ \E i \in 1..MaxChains, o \in {"ok", "launchFailed", "pageFailed"} :
        Launch(i, o)
  \/ \E i \in 1..MaxChains, ok \in BOOLEAN : Login(i, ok)
  \/ \E i \in 1..MaxChains, ok \in BOOLEAN, seen \in VisibleLabels :
        Probe(i, ok, seen)
  \/ \E i \in 1..MaxChains, o \in {"noButton", "clicked", "noConfirm"},
        lands \in BOOLEAN : Click(i, o, lands)
  \/ \E i \in 1..MaxChains, seen \in VisibleLabels : Verify(i, seen)
  \/ \E i \in 1..MaxChains, avail \in BOOLEAN : Activity(i, avail)
  \/ \E i \in 1..MaxChains, ok \in BOOLEAN : Save(i, ok)
  \/ \E i \in 1..MaxChains : OperationEnds(i)
  \/ ManualToggle
  \/ \E t \in Times : BotAdvance(t)

SpecBot == InitBotProcess /\ [][NextBot]_vars

\* the bot process with the clock-in trigger alone, activity selectors
\* configured, the user not clocked in and nobody but the bot using the site
InitActivity ==
  /\ InitScheduler(BotSetups("clockIn"))
  /\ InitBot({ClockInText}, {TRUE},
             {[activityConfigured |-> TRUE, clockOutConfirmButton |-> FALSE]})

NextActivity ==
  \/ \E i \in 1..MaxChains : BotBegin(i)
  \/ \E t \in Triggers : BotTick(t)
  \/ \E i \in 1..MaxChains : BotTimerFire(i)
  \/ \E i \in 1..MaxChains, o \in {"ok", "launchFailed", "pageFailed"} :
        Launch(i, o)
  \/ \E i \in 1..MaxChains, ok \in BOOLEAN : Login(i, ok)
  \/ \E i \in 1..MaxChains, ok \in BOOLEAN, seen \in VisibleLabels :
        Probe(i, ok, seen)
  \/ \E i \in 1..MaxChains, o \in {"noButton", "clicked", "noConfirm"},
        lands \in BOOLEAN : Click(i, o, lands)
  \/ \E i \in 1..MaxChains, seen \in VisibleLabels : Verify(i, seen)
  \/ \E i \in 1..MaxChains, avail \in BOOLEAN : Activity(i, avail)
  \/ \E i \in 1..MaxChains, ok \in BOOLEAN : Save(i, ok)
  \/ \E i \in 1..MaxChains : OperationEnds(i)
  \/ \E t \in Times : BotAdvance(t)

SpecActivity == InitActivity /\ [][NextActivity]_vars

----------------------------------------------------------------------------
(* Properties *)

ChainIds == 1..Len(chains)

\* C1: for every trigger, at most one invocation of its work unit is in
\* flight at any time
C1_AtMostOneInFlight ==
  \A t \in Triggers : Cardinality(InFlight(t)) <= 1

\* C2: isRunning is true for the whole logical execution: whenever an
\* attempt of a chain is running or a retry timer of it is pending, the
\* trigger's isRunning is true
C2_RunningWhileChainLive ==
  \A i \in ChainIds :
    chains[i].status \in {"running", "timer"} => isRunning[chains[i].trigger]

\* C3: a trigger's isRunning, once true, eventually returns to false, and it
\* is never true without a first attempt in flight that will release it
C3_GuardEventuallyReleased ==
  /\ [](\A t \in Triggers :
          isRunning[t] => \E i \in InFlight(t) : chains[i].attempt = 1)
  /\ \A t \in Triggers : isRunning[t] ~> ~isRunning[t]

C3_Witness ==
  \E i \in ChainIds :
    /\ chains[i].status = "failed"
    /\ chains[i].attempt = 1
    /\ ~isRunning[chains[i].trigger]

\* C4: a chain invokes the work unit at least once and at most maxAttempts
\* times; with the retry feature on, a chain that failed for good has invoked
\* it exactly maxAttempts times and logged the final failure; a failed chain
\* never changes again
C4_AttemptsBounded ==
  /\ [](\A i \in ChainIds :
          /\ chains[i].invoked >= 1
          /\ chains[i].invoked <= cfg.maxAttempts
          /\ (cfg.retryMechanism /\ chains[i].status = "failed") =>
               /\ chains[i].invoked = cfg.maxAttempts
               /\ \A k \in 1..cfg.maxAttempts : <<"failed", k>> \in chains[i].events
               /\ <<"givingUp", cfg.maxAttempts>> \in chains[i].events)
  /\ [][\A i \in ChainIds :
          chains[i].status = "failed" => chains'[i] = chains[i]]_vars

C4_Witness ==
  /\ cfg.retryMechanism
  /\ cfg.maxAttempts = 3
  /\ \E i \in ChainIds :
       /\ chains[i].status = "failed"
       /\ chains[i].invoked = 3
       /\ <<"givingUp", 3>> \in chains[i].events

\* C5: a chain that succeeds at attempt k has invoked the work unit k times,
\* logged "succeeded on retry attempt k" if and only if k > 1, and logged no
\* final failure
C5_SucceededOnRetry ==
  \A i \in ChainIds :
    chains[i].status = "succeeded" =>
      LET k == chains[i].attempt
      IN /\ chains[i].invoked = k
         /\ (<<"succeededOnRetry", k>> \in chains[i].events) <=> (k > 1)
         /\ \A e \in chains[i].events :
              /\ e[1] = "succeededOnRetry" => e[2] = k
              /\ e[1] \notin {"givingUp", "retryDisabled"}
         /\ \A j \in 1..(k - 1) : <<"failed", j>> \in chains[i].events

C5_Witness ==
  /\ cfg.maxAttempts = 3
  /\ \E i \in ChainIds :
       /\ chains[i].status = "succeeded"
       /\ chains[i].invoked = 3
       /\ {<<"failed", 1>>, <<"failed", 2>>, <<"succeededOnRetry", 3>>}
            \subseteq chains[i].events

\* some record of the list covers day d (inclusive, on day numbers)
Covered(list, d) ==
  \E k \in 1..Len(list) : list[k].startDate <= d /\ d <= list[k].endDate

\* C6: with the leave check enabled, a firing whose date lies inside the
\* inclusive range of a leave record is skipped with the annual-leave reason
\* and invokes nothing, whatever the weekend/holiday check would say
C6_LeaveWins ==
  [][\A t \in Triggers :
       (/\ Tick(t)
        /\ ~isRunning[t]
        /\ options[t] /\ cfg.skipOnAnnualLeaves
        /\ Covered(leaves', LocalDate(now)))
       => /\ lastTick'.trigger = t
          /\ lastTick'.outcome = "skipped"
          /\ lastTick'.reason = "AnnualLeave"
          /\ lastTick'.date = LocalDate(now)
          /\ \E r \in lastTick'.record :
               r.startDate <= LocalDate(now) /\ LocalDate(now) <= r.endDate
          /\ chains' = chains
          /\ waiting' = waiting
          /\ isRunning' = isRunning]_vars

C6_Witness ==
  /\ lastTick.outcome = "skipped"
  /\ lastTick.reason = "AnnualLeave"
  /\ lastTick.date = LocalDate(now)
  /\ getDay(now) \in {0, 6}
  /\ chains = << >>

\* C7: shouldSkipTask(D) skips on the start date, the end date and every day
\* between them of each leave record, and does not skip the day before the
\* start or the day after the end unless another record covers it
C7_InclusiveRange ==
  [][\A d \in DateStrings :
       CheckLeave(d) =>
         \A k \in 1..Len(leaves') :
           LET r == leaves'[k]
           IN /\ (r.startDate <= d /\ d <= r.endDate)
                   => /\ leaveQuery'.shouldSkip
                      /\ leaveQuery'.reason = "AnnualLeave"
              /\ ((d = r.startDate - 1 \/ d = r.endDate + 1)
                    /\ ~Covered(leaves', d))
                   => ~leaveQuery'.shouldSkip]_vars

C7_Witness ==
  /\ leaveQuery.asked
  /\ leaveQuery.shouldSkip
  /\ \E k \in 1..Len(leaves) :
       /\ leaves[k].startDate < leaves[k].endDate
       /\ leaves[k].endDate = leaveQuery.date

\* C8: with holiday skipping enabled the holiday check answers Weekend
\* exactly for the firings whose day in the configured time zone is a
\* Saturday or a Sunday
C8_WeekendByZoneCalendar ==
  [][\A t \in Triggers :
       (Tick(t) /\ options[t] /\ cfg.skipOnHolidays)
       => /\ branchOfTick(t) \in {"skipHoliday", "start"}
               => (lastTick'.reason = "Weekend"
                     <=> ZoneDayOfWeek(now) \in {0, 6})
          /\ branchOfTick(t) = "suspend" => ZoneDayOfWeek(now) \notin {0, 6}]_vars

HasEntry(list, d) == \E k \in 1..Len(list) : list[k].date = d

\* what the claim expects a tick to log for a weekday d and a holiday list
HolidayAnswer(log, list, d) ==
  IF HasEntry(list, d)
    THEN /\ log.outcome = "skipped"
         /\ log.reason = "PublicHoliday"
         /\ \E r \in log.record : r.date = d
    ELSE /\ log.outcome = "started"
         /\ log.reason = "RegularWorkingDay"

\* C9: for a weekday D whose holiday list was obtained without error, the
\* holiday check skips with the matched record if and only if the list has
\* an entry for the calendar day of D, and otherwise reports a regular
\* working day
C9_HolidayExactDate ==
  [][/\ \A t \in Triggers :
          (/\ Tick(t)
           /\ options[t] /\ cfg.skipOnHolidays
           /\ branchOfTick(t) \in {"skipHoliday", "start"}
           /\ isWeekday(now))
          => HolidayAnswer(lastTick', cache.holidays, LocalDate(now))
     /\ \A i \in 1..Len(waiting) : \A list \in ProviderLists :
          FetchReturn(i, FALSE, list)
            => HolidayAnswer(lastTick', list, LocalDate(waiting[i].at))]_vars

\* C10: a failed provider fetch never skips the firing: the suspended tick
\* logs the fail-open decision and invokes the work unit, and the trigger
\* stays registered
C10_FailOpen ==
  /\ [](lastTick.reason = "HolidayCheckFailed" => lastTick.outcome = "started")
  /\ [][\A i \in 1..Len(waiting) :
          FetchFail(i) =>
            /\ lastTick'.trigger = waiting[i].trigger
            /\ lastTick'.outcome = "started"
            /\ lastTick'.reason = "HolidayCheckFailed"
            /\ Len(chains') = Len(chains) + 1
            /\ chains'[Len(chains')].trigger = waiting[i].trigger
            /\ chains'[Len(chains')].invoked = 1
            /\ tasks' = tasks]_vars

C10_Witness ==
  /\ lastTick.reason = "HolidayCheckFailed"
  /\ lastTick.outcome = "started"
  /\ lastTick.trigger \in tasks
  /\ lastTick.chain \in ChainIds
  /\ chains[lastTick.chain].invoked >= 1
  /\ isWeekday(now)
  /\ ~Covered(leaves, LocalDate(now))

\* the outcome of an action that was not performed
NotPerformed == [performed |-> FALSE, shouldSaveActivity |-> FALSE]

OppositeText(action) == IF action = "clock-in" THEN ClockOutText ELSE ClockInText

\* C12: a verification wait that ends without the opposite label makes the
\* action fail (no outcome, no success logged, the operation goes to its
\* cleanup with the error), the ending operation is counted by
\* executeWithRetry as a failed attempt, and no operation has performed =
\* true or a logged success without having read the opposite label
C12_TimeoutFails ==
  /\ [][\A i \in 1..MaxChains : \A seen \in VisibleLabels :
          (Verify(i, seen) /\ ~includes(seen, OppositeText(ops[i].action)))
          => /\ ops'[i].error
             /\ ops'[i].result = {}
             /\ ~ops'[i].success
             /\ ops'[i].pc = "cleanup"]_vars
  /\ [][\A i \in 1..MaxChains :
          (OperationEnds(i) /\ ops[i].error)
          => /\ <<"failed", chains[i].attempt>> \in chains'[i].events
             /\ chains'[i].status \in {"timer", "failed"}
             /\ chains'[i].invoked = chains[i].invoked]_vars
  /\ [](\A i \in 1..MaxChains :
          /\ (\E r \in ops[i].result : r.performed)
               => includes(ops[i].observed, OppositeText(ops[i].action))
          /\ ops[i].success
               => /\ ~ops[i].error
                  /\ \/ includes(ops[i].status, OppositeText(ops[i].action))
                     \/ includes(ops[i].observed, OppositeText(ops[i].action)))

C12_Witness ==
  \E i \in 1..MaxChains :
    /\ ops[i].pc = "cleanup"
    /\ ops[i].clicks >= 1
    /\ ops[i].observed = OtherText
    /\ ops[i].error
    /\ ops[i].result = {}
    /\ site.button = OppositeText(ops[i].action)

statusOf(i) == IF i \in 1..Len(chains) THEN chains[i].status ELSE "none"
invokedOf(i) == IF i \in 1..Len(chains) THEN chains[i].invoked ELSE 0

C15_TimerSurvivesStop ==
  /\ [][StopAll => \A i \in PendingTimers :
                     chains'[i] = chains[i] /\ chains[i].status = "timer"]_vars
  /\ [][\A i \in 1..MaxChains : \A how \in Hows :
          (stopped.called /\ i \in stopped.timers /\ TimerFire(i, how))
          => /\ chains'[i].invoked = chains[i].invoked + 1
             /\ chains'[i].attempt = chains[i].attempt + 1]_vars
  /\ \A i \in 1..MaxChains :
       (stopped.called /\ i \in stopped.timers)
         ~> \/ statusOf(i) = "succeeded"
            \/ statusOf(i) = "failed" /\ invokedOf(i) = cfg.maxAttempts

C15_Witness ==
  /\ stopped.called
  /\ \E i \in stopped.timers :
       /\ chains[i].status = "succeeded"
       /\ chains[i].attempt = 2
       /\ cfg.maxAttempts = 2

\* C16: the hourly time-log trigger runs its callback on every tick, also
\* on weekends, public holidays and leave days: none of its ticks is skipped
C16_HourlyNeverSkipped ==
  lastTick.trigger = "hourly" => lastTick.outcome # "skipped"

\* C17: with the retry feature flag off, or with maxAttempts = 1, every
\* chain invokes the work unit exactly once and never has a retry timer
C17_NoRetryWhenDisabled ==
  (~cfg.retryMechanism \/ cfg.maxAttempts = 1) =>
    \A i \in ChainIds :
      /\ chains[i].invoked = 1
      /\ chains[i].attempt = 1
      /\ chains[i].status # "timer"
      /\ \A e \in chains[i].events :
           e[1] \notin {"schedulingRetry", "retryAttempt"}

C17_Witness ==
  /\ ~cfg.retryMechanism
  /\ cfg.maxAttempts = 3
  /\ \E i \in ChainIds :
       /\ chains[i].status = "failed"
       /\ chains[i].invoked = 1
       /\ chains[i].events = {<<"failed", 1>>, <<"retryDisabled", 1>>}

\* the skip policy lets a tick of trigger t through at once: it is switched
\* off for the trigger, or the day is no leave day and the cached holiday
\* list says it is a working day
PassesAtOnce(t) ==
  \/ ~options[t]
  \/ /\ ~(cfg.skipOnAnnualLeaves /\ Covered(leaves', LocalDate(now)))
     /\ \/ ~cfg.skipOnHolidays
        \/ /\ holidayCacheValid(now)
           /\ getDay(now) \in 1..5
           /\ ~HasEntry(cache.holidays, ISODate(now))

\* C18: a chain that failed for good leaves its trigger usable: it does not
\* hold isRunning, the trigger stays registered, and the next tick that the
\* skip policy lets through starts a new chain at attempt 1
C18_NewChainAfterFinalFailure ==
  /\ [](\A i \in ChainIds :
          (chains[i].status = "failed" /\ isRunning[chains[i].trigger])
            => \E j \in InFlight(chains[i].trigger) :
                 j # i /\ chains[j].attempt = 1)
  /\ [][\A i \in ChainIds :
          chains[i].status = "failed" => tasks' = tasks]_vars
  /\ [][\A t \in Triggers :
          (/\ Tick(t)
           /\ \E i \in ChainIds :
                chains[i].trigger = t /\ chains[i].status = "failed"
           /\ ~isRunning[t]
           /\ PassesAtOnce(t))
          => /\ Len(chains') = Len(chains) + 1
             /\ chains'[Len(chains')].trigger = t
             /\ chains'[Len(chains')].attempt = 1
             /\ chains'[Len(chains')].invoked = 1
             /\ lastTick'.outcome = "started"]_vars

C18_Witness ==
  /\ cfg.retryMechanism
  /\ cfg.maxAttempts = 1
  /\ Len(chains) = 2
  /\ chains[1].status = "failed"
  /\ <<"givingUp", 1>> \in chains[1].events
  /\ chains[2].trigger = chains[1].trigger
  /\ chains[2].attempt = 1
  /\ chains[2].status = "running"
  /\ lastTick.chain = 2

\* C19: an init() that finds a required field or selector missing, or whose
\* registration of a trigger is rejected, ends in the failure exit; after
\* that exit no trigger fires and no work unit is ever invoked
C19_StartupFailureIsFatal ==
  /\ [][proc = "starting" =>
          \A missing \in SUBSET Settings : \A rejected \in SUBSET CronConfigured :
            (/\ Startup(missing, rejected)
             /\ \/ missing \cap (RequiredFields \cup RequiredSelectors) # {}
                \/ rejected # {})
            => proc' = "exit1"]_vars
  /\ [][proc' = "exit1" =>
          /\ chains' = << >>
          /\ waiting' = << >>
          /\ lastTick' = NoTick
          /\ \A t \in Triggers : ~isRunning'[t]]_vars
  /\ [][proc = "exit1" =>
          /\ proc' = "exit1"
          /\ \A t \in Triggers : ~Tick(t)]_vars

C19_Witness ==
  /\ proc = "exit1"
  /\ tasks = {"hourly", "clockIn"}
  /\ now > StartTime
  /\ chains = << >>
  /\ lastTick = NoTick

\* the cron callback of trigger t gets as far as getHolidays()
ReachesGetHolidays(t) ==
  /\ branchOfTick(t) \in {"suspend", "skipHoliday", "start"}
  /\ options[t] /\ cfg.skipOnHolidays
  /\ isWeekday(now)

\* C20: once a fetch has succeeded, a getHolidays query made less than 24
\* hours after it does not call the provider, whatever list was fetched, and
\* a query made 24 hours or more after it does
C20_CachedFor24h ==
  [][\A t \in Triggers :
       (Tick(t) /\ ReachesGetHolidays(t) /\ cache.lastFetched # NullTime)
       => (now - cache.lastFetched < CacheValidHours <=> waiting' = waiting)]_vars

\* C21: a holiday fetch that fails leaves cache.holidays and
\* cache.lastFetched as they were, and a fetch that succeeds replaces both
\* with the fetched list and the time of the answer, also after a failure
C21_FailedFetchKeepsCache ==
  [][\A i \in 1..MaxWaiting :
       /\ FetchFail(i) => cache' = cache
       /\ \A list \in ProviderLists :
            FetchReturn(i, FALSE, list) =>
              /\ cache'.holidays = list
              /\ cache'.lastFetched = now]_vars

C21_Witness ==
  /\ lastTick.reason = "HolidayCheckFailed"
  /\ Len(cache.holidays) > 0
  /\ cache.lastFetched # NullTime

\* C22: an addLeave or removeLeave call that returns true leaves the store
\* holding exactly the in-memory list and the cache timestamp reset to the
\* time of the call, so that the next getLeaves does not read the store
C22_MutationsWriteThrough ==
  [][/\ \A call \in AddLeaveCalls, w \in BOOLEAN :
          (AddLeave(call[1], call[2], "trip", w)
             /\ addLeaveAccepts(call[1], call[2]))
          => /\ store' = [kind |-> "ok", list |-> leaves']
             /\ lastLoadTime' = now
     /\ \A sd \in EditDates, w \in BOOLEAN :
          (RemoveLeave(sd, w) /\ Len(leaves') < Len(leaves))
          => /\ store' = [kind |-> "ok", list |-> leaves']
             /\ lastLoadTime' = now]_vars

\* C23: a firing that has to read the leave store and finds it missing or
\* unparsable ends with an empty in-memory list, for which no date is a
\* leave day, and is not skipped for leave: it goes on to the work unit
C23_LeaveReadFailsOpen ==
  [][\A t \in Triggers :
       (/\ Tick(t)
        /\ ~isRunning[t]
        /\ options[t] /\ cfg.skipOnAnnualLeaves
        /\ ~leavesCacheValid(now)
        /\ store.kind # "ok")
       => /\ leaves' = << >>
          /\ \A d \in DateStrings : ~leaveShouldSkipTask(leaves', d).shouldSkip
          /\ branchOfTick(t) # "skipLeave"
          /\ lastTick'.reason # "AnnualLeave"
          /\ cfg.skipOnHolidays \/ lastTick'.outcome = "started"]_vars

\* a firing went on to the work unit although no read of the store has ever
\* succeeded
C23_Witness ==
  /\ store.kind # "ok"
  /\ lastLoadTime = NullTime
  /\ leaves = << >>
  /\ lastTick.outcome = "started"
  /\ cfg.skipOnAnnualLeaves /\ options[lastTick.trigger]
  /\ statusOf(lastTick.chain) = "running"

\* C24: with config.features.holidayDetection false no firing calls the
\* calendar provider
C24_NoFetchWhenDetectionOff ==
  [][\A t \in Triggers :
       (Tick(t) /\ ~cfg.holidayDetection) => waiting' = waiting]_vars

C26_ConfiguredFileDecides ==
  [][\A t \in Triggers :
       (/\ Tick(t)
        /\ cfg.leavesFilePath = "custom"
        /\ ~isRunning[t]
        /\ options[t] /\ cfg.skipOnAnnualLeaves)
       => (branchOfTick(t) = "skipLeave"
             <=> Covered(ConfiguredFile.list, LocalDate(now)))]_vars

\* C27: a firing suppressed by the leave check, the weekend test or the
\* holiday check leaves the overlap guards, the chains (their invocation
\* counts and retry timers) and the registered tasks as they were; a firing
\* suppressed without suspension leaves its guard false
C27_SkipChangesNothing ==
  [][/\ \A t \in Triggers :
          (Tick(t) /\ branchOfTick(t) \in {"skipLeave", "skipHoliday"})
          => /\ UNCHANGED <<isRunning, chains, waiting, tasks>>
             /\ ~isRunning'[t]
             /\ lastTick'.outcome = "skipped"
     /\ \A i \in 1..MaxWaiting : \A list \in ProviderLists :
          (/\ FetchReturn(i, FALSE, list)
           /\ holidayShouldSkipTask(waiting[i].at, list, FALSE).shouldSkip)
          => /\ UNCHANGED <<isRunning, chains, tasks>>
             /\ lastTick'.outcome = "skipped"
             /\ lastTick'.chain = 0]_vars

\* a firing that waited for the provider was skipped for a public holiday
C27_Witness ==
  /\ lastTick.outcome = "skipped"
  /\ lastTick.reason = "PublicHoliday"
  /\ lastTick.record # {}
  /\ cache.lastFetched = now
  /\ chains = << >>
  /\ \A t \in Triggers : ~isRunning[t]

\* C28: a tick that finds its trigger running only logs: no invocation, no
\* leave or holiday check, guards, chains and timers untouched.  Nothing is
\* queued for it: a chain is only ever started, one at a time, by a tick
\* that passed the guard, at once or when its holiday check returns, and
\* only ticks that passed the guard wait for a holiday check
C28_DroppedForGood ==
  [][/\ \A t \in Triggers :
          (Tick(t) /\ isRunning[t])
          => /\ UNCHANGED <<isRunning, chains, waiting, tasks, cache,
                             leaves, lastLoadTime>>
             /\ lastTick'.outcome = "dropped"
     /\ Len(chains') > Len(chains)
          => /\ Len(chains') = Len(chains) + 1
             /\ SubSeq(chains', 1, Len(chains)) = chains
             /\ \/ \E t \in Triggers :
                     /\ Tick(t) /\ ~isRunning[t]
                     /\ branchOfTick(t) = "start"
                     /\ chains'[Len(chains')].trigger = t
                \/ \E i \in 1..Len(waiting) :
                     /\ waiting' = RemoveAt(waiting, i)
                     /\ chains'[Len(chains')].trigger = waiting[i].trigger
     /\ Len(waiting') > Len(waiting)
          => \E t \in Triggers :
               /\ Tick(t) /\ ~isRunning[t]
               /\ waiting' = Append(waiting, [trigger |-> t, at |-> now])]_vars

\* a tick was dropped while attempt 1 of an earlier firing was in flight
C28_Witness ==
  /\ lastTick.outcome = "dropped"
  /\ isRunning[lastTick.trigger]
  /\ Len(chains) = 1
  /\ chains[1].status = "running"
  /\ chains[1].invoked = 1

\* C29: in a chain the attempt number equals the number of invocations
\* made, lies in 1..maxAttempts, and the retries logged are exactly those
\* of attempts 2..attempt; the attempt number only ever grows by one, when
\* the chain's retry timer fires; a failing attempt starts no chain and
\* leaves the chain with one timer for the next attempt, or finished
C29_AttemptsInSequence ==
  /\ [](\A i \in ChainIds :
          /\ chains[i].attempt = chains[i].invoked
          /\ chains[i].attempt \in 1..cfg.maxAttempts
          /\ \A n \in 1..MaxAttemptsBound :
               <<"retryAttempt", n>> \in chains[i].events
                 <=> (2 <= n /\ n <= chains[i].attempt)
          /\ chains[i].status = "timer" =>
               /\ chains[i].due # NullTime
               /\ chains[i].attempt < cfg.maxAttempts)
  /\ [][\A i \in ChainIds :
          /\ chains'[i].attempt \in {chains[i].attempt, chains[i].attempt + 1}
          /\ chains'[i].attempt = chains[i].attempt + 1 =>
               /\ chains[i].status = "timer"
               /\ \E how \in Hows : TimerFire(i, how)
          /\ (chains[i].status = "running"
                /\ chains'[i].status \in {"timer", "failed"}) =>
               /\ Len(chains') = Len(chains)
               /\ chains'[i].attempt = chains[i].attempt
               /\ chains'[i].invoked = chains[i].invoked]_vars

\* attempt 3 of a chain is in flight after two failed attempts
C29_Witness ==
  \E i \in ChainIds :
    /\ chains[i].attempt = 3
    /\ chains[i].invoked = 3
    /\ chains[i].status = "running"
    /\ {<<"failed", 1>>, <<"failed", 2>>} \subseteq chains[i].events

\* C30: every failure of the work unit, thrown at once or rejected later, at
\* attempt 1 or at a re-attempt, ends in the catch block of executeWithRetry:
\* it is logged and the chain goes on to a retry timer or finishes as
\* failed; the process, the registered tasks and the guards of the other
\* triggers are untouched
C30_FailuresContained ==
  [][/\ \A i \in 1..MaxChains :
          (WorkDone(i, FALSE) \/ TimerFire(i, "throws"))
          => chains'[i].status \in {"timer", "failed"}
     /\ \A i \in 1..Len(chains') :
          (i > Len(chains) \/ chains'[i] # chains[i])
          => /\ chains'[i].status \in {"running", "succeeded", "timer", "failed"}
             /\ chains'[i].status \in {"timer", "failed"}
                  => /\ <<"failed", chains'[i].attempt>> \in chains'[i].events
                     /\ proc' = "running"
                     /\ tasks' = tasks
                     /\ \A u \in Triggers \ {chains'[i].trigger} :
                          isRunning'[u] = isRunning[u]]_vars

\* with two triggers registered, the chain of one has failed for good and a
\* chain of the other is in flight
C30_Witness ==
  /\ Len(chains) = 2
  /\ chains[1].status = "failed"
  /\ ~isRunning[chains[1].trigger]
  /\ chains[2].trigger # chains[1].trigger
  /\ chains[2].status = "running"
  /\ proc = "running"

\* C31: the failure of attempt n sets a timer due the configured delay
\* later; attempt n+1 starts when that timer fires, not before it is due,
\* and in a step that is no cron tick
C31_RetryByOwnTimer ==
  [][\A i \in ChainIds :
       /\ (chains[i].status = "running" /\ chains'[i].status = "timer")
            => chains'[i].due = now + RetryDelayHours
       /\ chains'[i].attempt = chains[i].attempt + 1
            => /\ chains[i].status = "timer"
               /\ now >= chains[i].due
               /\ lastTick' = lastTick
               /\ \A t \in Triggers : ~Tick(t)
               /\ chains'[i].invoked = chains[i].invoked + 1]_vars

\* attempt 2 is in flight and the last cron tick is the one that started
\* the chain
C31_Witness ==
  \E i \in ChainIds :
    /\ chains[i].attempt = 2
    /\ chains[i].status = "running"
    /\ lastTick.outcome = "started"
    /\ lastTick.chain = i
    /\ Len(chains) = i


\* a text that names a day of the calendar in YYYY-MM-DD form
CalendarDate(s) ==
  /\ s.wellFormed
  /\ s.month \in 1..12
  /\ s.day \in 1..DaysInMonth(s.month)

\* C32: addLeave with a start or end that is no calendar date in YYYY-MM-DD
\* form (1970-13-01, 1970-02-30, 04-01-1970), or with a start after the end,
\* leaves the list, the store and the load timestamp as they were; any other
\* call appends exactly one record {startDate, endDate, type: annual, reason}
C32_AddLeaveValidates ==
  [][\A call \in AddLeaveCalls, w \in BOOLEAN :
       AddLeave(call[1], call[2], "trip", w)
       => LET sd == call[1]
              ed == call[2]
          IN  IF /\ CalendarDate(sd) /\ CalendarDate(ed)
                 /\ DaysBefore(sd.month) + sd.day <= DaysBefore(ed.month) + ed.day
                THEN leaves' = Append(leaves,
                                 [startDate |-> DaysBefore(sd.month) + sd.day - 1,
                                  endDate |-> DaysBefore(ed.month) + ed.day - 1,
                                  type |-> "annual",
                                  reason |-> "trip"])
                ELSE UNCHANGED <<leaves, store, lastLoadTime>>]_vars

C32_Witness ==
  /\ Len(leaves) = 2
  /\ DOMAIN leaves[2] = {"startDate", "endDate", "type", "reason"}
  /\ leaves[2].type = "annual"
  /\ leaves[2].startDate = FirstDay
  /\ leaves[2].endDate = FirstDay + 1
  /\ store = [kind |-> "ok", list |-> leaves]


\* C33: with retries disabled, two ticks of one trigger never both have
\* their work unit in flight, also when the second tick arrives while the
\* first is suspended in the holiday check
C33_ExclusionAcrossHolidayCheck ==
  ~cfg.retryMechanism => \A t \in Triggers : Cardinality(InFlight(t)) <= 1


\* C34: operations interleaved on the shared BotService each use and close
\* only the browser they launched: a run in progress calls the services
\* created for it, and a run that has ended has left its own browser closed
C34_OwnBrowserOnly ==
  \A i \in 1..MaxChains :
    /\ ops[i].pc \in {"login", "probe", "click", "verify", "activity", "save",
                      "cleanup"}
         => ops[i].target = i
    /\ ops[i].pc = "done" => ops[i].browser = "null"


\* C35: in a clock-in chain with the activity selectors configured and the
\* activity available, a chain whose earlier attempt performed the clock-in
\* and then failed does not end in success with the activity never saved:
\* when the only chain there is ends in success after finding the user
\* already clocked in, the activity has been saved
C35_SuccessImpliesSaved ==
  [][\A i \in 1..MaxChains :
       (/\ OperationEnds(i)
        /\ Len(chains) = 1
        /\ chains'[i].status = "succeeded"
        /\ ops[i].action = "clock-in"
        /\ botService.config.activityConfigured
        /\ alreadyDone(ops[i].action, ops[i].status))
       => ~site.activityAvailable]_vars


\* C36: in a firing that goes through the leave lookup, the weekend test and
\* the holiday lookup, the local date of the leave range check, the day of
\* week of the weekend test and the UTC date of the holiday match all denote
\* the firing's calendar day in the configured time zone
C36_OneCivicDatePerFiring ==
  [][\A t \in Triggers :
       (/\ Tick(t)
        /\ ~isRunning[t]
        /\ options[t] /\ cfg.skipOnAnnualLeaves /\ cfg.skipOnHolidays
        /\ branchOfTick(t) # "skipLeave"
        /\ isWeekday(now))
       => /\ LocalDate(now) = ZoneDate(now)
          /\ getDay(now) = ZoneDayOfWeek(now)
          /\ ISODate(now) = ZoneDate(now)]_vars


\* C37: addLeave never loses leave records: after a call that returns true
\* every record the store held before the call is still in the store
C37_AddLeaveKeepsStoredRecords ==
  [][\A call \in AddLeaveCalls, w \in BOOLEAN :
       (/\ AddLeave(call[1], call[2], "trip", w)
        /\ addLeaveAccepts(call[1], call[2])
        /\ store.kind = "ok")
       => /\ store'.kind = "ok"
          /\ \A k \in 1..Len(store.list) :
               \E j \in 1..Len(store'.list) : store'.list[j] = store.list[k]]_vars


\* C38: when several firings query the holiday check with a stale cache only
\* the first calls the provider: at most one firing is suspended on a
\* provider fetch at any time
C38_SingleFetchInFlight ==
  Len(waiting) <= 1


\* C39: an executeOperation that runs on its own (the only chain there is,
\* its attempts one after the other) has, once it has returned or thrown,
\* left the BrowserService it created with no open browser and no page
C39_BrowserClosedAfterRun ==
  \A i \in ChainIds :
    (Len(chains) = 1 /\ chains[i].status \in {"succeeded", "failed", "timer"})
    => /\ ops[i].pc = "done"
       /\ ops[i].browser = "null"

C39_Witness ==
  /\ Len(chains) = 1
  /\ chains[1].status = "timer"
  /\ ops[1].pc = "done"
  /\ ops[1].browser = "null"
  /\ site.button = ClockOutText
  /\ site.activityAvailable

====
